---------------------------- MODULE Spec2Model ----------------------------
(***************************************************************************)
(* Global hotkey listeners of just-talk.                                   *)
(*                                                                         *)
(*   src/hotkey/listener.py        HotkeyListenerThread (pynput backend)   *)
(*   src/hotkey/listener_macos.py  MacOSHotkeyListenerThread (Quartz tap)  *)
(*                                                                         *)
(* One listener object exists per run of the application; `backend` says   *)
(* which class was instantiated.  Both classes keep a set of pressed keys  *)
(* and a dict of active combos and emit Qt signals; `out` holds what the   *)
(* last step emitted and `ev` the event that step handled.                 *)
(***************************************************************************)
EXTENDS Integers, Sequences, FiniteSets, TLC

VARIABLES
    backend,            \* "pynput" | "macos": the listener class in use
    enabled,            \* config.enabled of every definition, by id
    pressed_keys,       \* self._pressed_keys / run.pressed_keys
    active_combos,      \* key set of self._active_combos / run.active_combos
    last_modifiers,     \* run.last_modifiers (macOS only)
    stop_event,         \* self._stop_event.is_set()
    keyboard_listener,  \* self._keyboard_listener: "none" | "created" | "running" | "stopped"
    mouse_listener,     \* self._mouse_listener:    "none" | "created" | "running" | "stopped"
    tap,                \* self._tap: "none" | "enabled" | "disabled"
    run_pc,             \* position of run()
    stop_pc,            \* position of stop()
    ev,                 \* the event handled by the last step
    out,                \* the signals (and error log lines) emitted by the last step
    script,             \* replay runs: the key sequence the user types, round after round
    pos,                \* replay runs: how many keys of the script were typed
    log                 \* replay runs: the signals emitted in each round

vars == <<backend, enabled, pressed_keys, active_combos, last_modifiers, stop_event,
          keyboard_listener, mouse_listener, tap, run_pc, stop_pc, ev, out,
          script, pos, log>>

None == "None"

(***************************************************************************)
(* Bounds of the model.                                                    *)
(***************************************************************************)
\* how many keyboard/snippet definitions the initial configuration may have disabled
MaxDisabled == 1

\* replay runs: how many times the user types the same key sequence
MaxRounds == 2

(***************************************************************************)
(* Signals.  One record shape for the four pyqtSignals and for LOG.error.  *)
(***************************************************************************)
Sig(sig, id, arg) == [sig |-> sig, id |-> id, arg |-> arg]

hotkey_pressed(id, action) == Sig("hotkey_pressed", id, action)

mouse_button_event(id, action) == Sig("mouse_button_event", id, action)

snippet_triggered(id, text) == Sig("snippet_triggered", id, text)

listener_error(msg) == Sig("listener_error", "", msg)

LOG_error(msg) == Sig("LOG.error", "", msg)

(***************************************************************************)
(* The configuration the listeners read (self._config).  Dicts are         *)
(* iterated in insertion order, given here by the *Order sequences.        *)
(***************************************************************************)
keyboard_hotkeys ==
    [hold_csx  |-> [keys |-> {"ctrl", "shift", "x"}, mode |-> "hold"],
     hold_cs   |-> [keys |-> {"ctrl", "shift"},      mode |-> "hold"],
     toggle_cx |-> [keys |-> {"ctrl", "x"},          mode |-> "toggle"],
     hold_cxy  |-> [keys |-> {"ctrl", "x", "y"},     mode |-> "hold"],
     toggle_cxy |-> [keys |-> {"ctrl", "x", "y"},    mode |-> "toggle"]]

HotkeyOrder == <<"hold_csx", "hold_cs", "toggle_cx", "hold_cxy", "toggle_cxy">>

text_snippets ==
    [snip_xy |-> [keys |-> {"x", "y"}, text |-> "hello"]]

SnippetOrder == <<"snip_xy">>

mouse_hotkeys ==
    [m_hold   |-> [button |-> "middle", mode |-> "hold"],
     m_toggle |-> [button |-> "middle", mode |-> "toggle"],
     m_off    |-> [button |-> "middle", mode |-> "hold"],
     m_left   |-> [button |-> "left",   mode |-> "hold"]]

MouseOrder == <<"m_hold", "m_toggle", "m_off", "m_left">>

\* config.enabled of the mouse definitions (m_off is the disabled one)
MouseEnabled == [m_hold |-> TRUE, m_toggle |-> TRUE, m_off |-> FALSE, m_left |-> TRUE]

HotkeyIds == DOMAIN keyboard_hotkeys

SnippetIds == DOMAIN text_snippets

MouseIds == DOMAIN mouse_hotkeys

AllIds == HotkeyIds \cup SnippetIds \cup MouseIds

\* f"snippet:{snip_id}"
SnipKey(snip_id) == "snippet:" \o snip_id

(***************************************************************************)
(* listener.py: key normalisation and the modifier vocabulary.             *)
(***************************************************************************)
\* pynput keys as the callbacks receive them: a keyboard.Key member, a
\* keyboard.KeyCode (char may be None) or an object whose str() raises.
PKey(name) == [kind |-> "Key", name |-> name, char |-> None]

PChar(c) == [kind |-> "KeyCode", name |-> "", char |-> c]

PBroken == [kind |-> "Broken", name |-> "", char |-> None]

special_map ==
    [ctrl_l |-> "ctrl", ctrl |-> "ctrl", ctrl_r |-> "right_ctrl",
     cmd |-> "super", cmd_l |-> "super", cmd_r |-> "right_super",
     alt_l |-> "alt", alt |-> "alt", alt_r |-> "right_alt",
     shift |-> "shift", shift_l |-> "shift", shift_r |-> "right_shift",
     space |-> "space", enter |-> "enter", tab |-> "tab", esc |-> "esc",
     backspace |-> "backspace", delete |-> "delete", home |-> "home",
     end |-> "end", page_up |-> "page_up", page_down |-> "page_down",
     up |-> "up", down |-> "down", left |-> "left", right |-> "right"]

\* str.lower() on the characters the model feeds
Lower(c) == CASE c = "X" -> "x" [] c = "Y" -> "y" [] OTHER -> c

\* _normalize_key: [ok |-> FALSE] when the exception leaves the function
normalize_key(key) ==
    IF key.kind = "Broken"
    THEN [ok |-> FALSE, name |-> ""]
    ELSE IF key.kind = "Key" /\ key.name \in DOMAIN special_map
    THEN [ok |-> TRUE, name |-> special_map[key.name]]
    ELSE IF key.char # None /\ key.char # ""
    THEN [ok |-> TRUE, name |-> Lower(key.char)]
    ELSE [ok |-> TRUE, name |-> Lower(key.name)]

modifier_keys ==
    {"ctrl", "right_ctrl", "super", "right_super", "alt", "right_alt", "shift", "right_shift"}

\* what a handler leaves behind
Outcome(pressed, active, emitted) == [pressed |-> pressed, active |-> active, out |-> emitted]

(***************************************************************************)
(* listener.py: _on_key_press                                              *)
(***************************************************************************)
\* the loop of lines 170-185 without the test `hotkey_id not in self._active_combos`
RECURSIVE PressHotkeysLoop_NoActiveTest(_, _, _, _, _)
PressHotkeysLoop_NoActiveTest(i, pressed, active, emitted, en) ==
    IF i > Len(HotkeyOrder) THEN [active |-> active, out |-> emitted]
    ELSE LET hotkey_id == HotkeyOrder[i]
             config == keyboard_hotkeys[hotkey_id]
         IN IF en[hotkey_id] /\ config.keys \subseteq pressed
            THEN PressHotkeysLoop_NoActiveTest(i + 1, pressed, active \cup {hotkey_id},
                     Append(emitted, hotkey_pressed(hotkey_id,
                         IF config.mode = "hold" THEN "press" ELSE "toggle")), en)
            ELSE PressHotkeysLoop_NoActiveTest(i + 1, pressed, active, emitted, en)

\* the loop of lines 170-185 leaving at the first definition it activates
RECURSIVE PressHotkeysLoop_FirstOnly(_, _, _, _, _)
PressHotkeysLoop_FirstOnly(i, pressed, active, emitted, en) ==
    IF i > Len(HotkeyOrder) THEN [active |-> active, out |-> emitted]
    ELSE LET hotkey_id == HotkeyOrder[i]
             config == keyboard_hotkeys[hotkey_id]
         IN IF en[hotkey_id] /\ config.keys \subseteq pressed /\ hotkey_id \notin active
            THEN [active |-> active \cup {hotkey_id},
                  out |-> Append(emitted, hotkey_pressed(hotkey_id,
                              IF config.mode = "hold" THEN "press" ELSE "toggle"))]
            ELSE PressHotkeysLoop_FirstOnly(i + 1, pressed, active, emitted, en)

\* lines 170-185: the loop over keyboard_hotkeys, from position i on
RECURSIVE PressHotkeysLoop(_, _, _, _, _)
PressHotkeysLoop(i, pressed, active, emitted, en) ==
    IF i > Len(HotkeyOrder) THEN [active |-> active, out |-> emitted]
    ELSE LET hotkey_id == HotkeyOrder[i]
             config == keyboard_hotkeys[hotkey_id]
         IN IF ~en[hotkey_id]
            THEN PressHotkeysLoop(i + 1, pressed, active, emitted, en)
            ELSE IF config.keys \subseteq pressed /\ hotkey_id \notin active
            THEN PressHotkeysLoop(i + 1, pressed, active \cup {hotkey_id},
                     Append(emitted, hotkey_pressed(hotkey_id,
                         IF config.mode = "hold" THEN "press" ELSE "toggle")), en)
            ELSE PressHotkeysLoop(i + 1, pressed, active, emitted, en)

\* the loop of lines 187-199 with issubset in place of the exact match
RECURSIVE PressSnippetsLoop_Subset(_, _, _, _, _)
PressSnippetsLoop_Subset(i, pressed, active, emitted, en) ==
    IF i > Len(SnippetOrder) THEN [active |-> active, out |-> emitted]
    ELSE LET snip_id == SnippetOrder[i]
             snip_config == text_snippets[snip_id]
             snip_key == SnipKey(snip_id)
         IN IF en[snip_id] /\ snip_config.keys \subseteq pressed /\ snip_key \notin active
            THEN PressSnippetsLoop_Subset(i + 1, pressed, active \cup {snip_key},
                     Append(emitted, snippet_triggered(snip_id, snip_config.text)), en)
            ELSE PressSnippetsLoop_Subset(i + 1, pressed, active, emitted, en)

\* lines 187-199: the loop over text_snippets, from position i on
RECURSIVE PressSnippetsLoop(_, _, _, _, _)
PressSnippetsLoop(i, pressed, active, emitted, en) ==
    IF i > Len(SnippetOrder) THEN [active |-> active, out |-> emitted]
    ELSE LET snip_id == SnippetOrder[i]
             snip_config == text_snippets[snip_id]
             snip_key == SnipKey(snip_id)
         IN IF ~en[snip_id]
            THEN PressSnippetsLoop(i + 1, pressed, active, emitted, en)
            ELSE IF snip_config.keys = pressed /\ snip_key \notin active
            THEN PressSnippetsLoop(i + 1, pressed, active \cup {snip_key},
                     Append(emitted, snippet_triggered(snip_id, snip_config.text)), en)
            ELSE PressSnippetsLoop(i + 1, pressed, active, emitted, en)

\* _on_key_press without line 167, self._pressed_keys.add(key_name): the
\* definitions are matched against the keys with key_name, which is not kept
on_key_press_NoAdd(key, pressed, active, en) ==
    LET n == normalize_key(key) IN
    IF ~n.ok
    THEN Outcome(pressed, active, <<listener_error("key press")>>)
    ELSE LET p1 == pressed \cup {n.name}
             hk == PressHotkeysLoop(1, p1, active, <<>>, en)
             sn == PressSnippetsLoop(1, p1, hk.active, hk.out, en)
         IN Outcome(pressed, sn.active, sn.out)

on_key_press(key, pressed, active, en) ==
    LET n == normalize_key(key) IN
    IF ~n.ok
    THEN Outcome(pressed, active, <<listener_error("key press")>>)
    ELSE LET p1 == pressed \cup {n.name}
             hk == PressHotkeysLoop(1, p1, active, <<>>, en)
             sn == PressSnippetsLoop(1, p1, hk.active, hk.out, en)
         IN Outcome(p1, sn.active, sn.out)

(***************************************************************************)
(* listener.py: _on_key_release                                            *)
(***************************************************************************)
\* the release guard left out: every release of a combo key ends the hold
ReleaseGuarded_NoGuard(config, key_name, pressed) == FALSE

\* the guard without its test `if non_modifier_keys`: a modifier never ends a hold
ReleaseGuarded_AnyModifier(config, key_name, pressed) ==
    config.mode = "hold" /\ key_name \in modifier_keys

\* the guard without lines 217-218: only a remaining non-modifier key holds the combo
ReleaseGuarded_RemainingOnly(config, key_name, pressed) ==
    LET non_modifier_keys == {k \in config.keys : k \notin modifier_keys}
        remaining == pressed \ {key_name}
    IN /\ config.mode = "hold"
       /\ non_modifier_keys # {}
       /\ key_name \in non_modifier_keys
       /\ remaining \cap non_modifier_keys # {}

\* the guard `continue`ing at every release of a Hold with non-modifier keys
ReleaseGuarded_NeverEnds(config, key_name, pressed) ==
    config.mode = "hold" /\ {k \in config.keys : k \notin modifier_keys} # {}

\* the guard without lines 219-222: any non-modifier key of the combo ends the hold
ReleaseGuarded_NoRemainingTest(config, key_name, pressed) ==
    LET non_modifier_keys == {k \in config.keys : k \notin modifier_keys}
    IN /\ config.mode = "hold"
       /\ non_modifier_keys # {}
       /\ key_name \notin non_modifier_keys

\* lines 213-222: TRUE when the release guard `continue`s past the definition
ReleaseGuarded(config, key_name, pressed) ==
    LET non_modifier_keys == {k \in config.keys : k \notin modifier_keys}
        remaining == pressed \ {key_name}
    IN /\ config.mode = "hold"
       /\ non_modifier_keys # {}
       /\ \/ key_name \notin non_modifier_keys
          \/ remaining \cap non_modifier_keys # {}

\* the loop of lines 211-228 emitting "release" whatever the mode
RECURSIVE ReleaseHotkeysLoop_AlwaysEmit(_, _, _, _, _)
ReleaseHotkeysLoop_AlwaysEmit(i, key_name, pressed, active, emitted) ==
    IF i > Len(HotkeyOrder) THEN [active |-> active, out |-> emitted]
    ELSE LET hotkey_id == HotkeyOrder[i]
             config == keyboard_hotkeys[hotkey_id]
         IN IF hotkey_id \in active /\ key_name \in config.keys
                /\ ~ReleaseGuarded(config, key_name, pressed)
            THEN ReleaseHotkeysLoop_AlwaysEmit(i + 1, key_name, pressed, active \ {hotkey_id},
                     Append(emitted, hotkey_pressed(hotkey_id, "release")))
            ELSE ReleaseHotkeysLoop_AlwaysEmit(i + 1, key_name, pressed, active, emitted)

\* the loop of lines 211-228 without line 224, del self._active_combos[hotkey_id]
RECURSIVE ReleaseHotkeysLoop_KeepActive(_, _, _, _, _)
ReleaseHotkeysLoop_KeepActive(i, key_name, pressed, active, emitted) ==
    IF i > Len(HotkeyOrder) THEN [active |-> active, out |-> emitted]
    ELSE LET hotkey_id == HotkeyOrder[i]
             config == keyboard_hotkeys[hotkey_id]
         IN IF hotkey_id \in active /\ key_name \in config.keys
                /\ ~ReleaseGuarded(config, key_name, pressed)
            THEN ReleaseHotkeysLoop_KeepActive(i + 1, key_name, pressed, active,
                     IF config.mode = "hold"
                     THEN Append(emitted, hotkey_pressed(hotkey_id, "release"))
                     ELSE emitted)
            ELSE ReleaseHotkeysLoop_KeepActive(i + 1, key_name, pressed, active, emitted)

\* lines 211-228: the loop over keyboard_hotkeys, from position i on
RECURSIVE ReleaseHotkeysLoop(_, _, _, _, _)
ReleaseHotkeysLoop(i, key_name, pressed, active, emitted) ==
    IF i > Len(HotkeyOrder) THEN [active |-> active, out |-> emitted]
    ELSE LET hotkey_id == HotkeyOrder[i]
             config == keyboard_hotkeys[hotkey_id]
         IN IF hotkey_id \in active /\ key_name \in config.keys
                /\ ~ReleaseGuarded(config, key_name, pressed)
            THEN ReleaseHotkeysLoop(i + 1, key_name, pressed, active \ {hotkey_id},
                     IF config.mode = "hold"
                     THEN Append(emitted, hotkey_pressed(hotkey_id, "release"))
                     ELSE emitted)
            ELSE ReleaseHotkeysLoop(i + 1, key_name, pressed, active, emitted)

\* lines 231-234 left out: a guard, once set, stays
ReleaseSnippets_NoClear(key_name, active) == active

\* lines 231-234: clearing the snippet guards
ReleaseSnippets(key_name, active) ==
    active \ {SnipKey(snip_id) : snip_id \in {s \in SnippetIds : key_name \in text_snippets[s].keys}}

\* _on_key_release without line 236, self._pressed_keys.discard(key_name)
on_key_release_NoDiscard(key, pressed, active) ==
    LET n == normalize_key(key) IN
    IF ~n.ok
    THEN Outcome(pressed, active, <<listener_error("key release")>>)
    ELSE LET hk == ReleaseHotkeysLoop(1, n.name, pressed, active, <<>>)
         IN Outcome(pressed, ReleaseSnippets(n.name, hk.active), hk.out)

on_key_release(key, pressed, active) ==
    LET n == normalize_key(key) IN
    IF ~n.ok
    THEN Outcome(pressed, active, <<listener_error("key release")>>)
    ELSE LET hk == ReleaseHotkeysLoop(1, n.name, pressed, active, <<>>)
         IN Outcome(pressed \ {n.name}, ReleaseSnippets(n.name, hk.active), hk.out)

(***************************************************************************)
(* listener.py: _on_mouse_click                                            *)
(***************************************************************************)
\* the loop of lines 253-267 without the test of config.enabled
RECURSIVE MouseLoop_NoEnabledTest(_, _, _, _)
MouseLoop_NoEnabledTest(i, is_pressed, emitted, en) ==
    IF i > Len(MouseOrder) THEN emitted
    ELSE LET mb_id == MouseOrder[i]
             config == mouse_hotkeys[mb_id]
         IN IF config.button # "middle"
            THEN MouseLoop_NoEnabledTest(i + 1, is_pressed, emitted, en)
            ELSE IF is_pressed
            THEN MouseLoop_NoEnabledTest(i + 1, is_pressed,
                     Append(emitted, mouse_button_event(mb_id,
                         IF config.mode = "hold" THEN "press" ELSE "toggle")), en)
            ELSE MouseLoop_NoEnabledTest(i + 1, is_pressed,
                     IF config.mode = "hold"
                     THEN Append(emitted, mouse_button_event(mb_id, "release"))
                     ELSE emitted, en)

\* lines 253-267: the loop over mouse_hotkeys, from position i on
RECURSIVE MouseLoop(_, _, _, _)
MouseLoop(i, is_pressed, emitted, en) ==
    IF i > Len(MouseOrder) THEN emitted
    ELSE LET mb_id == MouseOrder[i]
             config == mouse_hotkeys[mb_id]
         IN IF ~en[mb_id] \/ config.button # "middle"
            THEN MouseLoop(i + 1, is_pressed, emitted, en)
            ELSE IF is_pressed
            THEN MouseLoop(i + 1, is_pressed,
                     Append(emitted, mouse_button_event(mb_id,
                         IF config.mode = "hold" THEN "press" ELSE "toggle")), en)
            ELSE MouseLoop(i + 1, is_pressed,
                     IF config.mode = "hold"
                     THEN Append(emitted, mouse_button_event(mb_id, "release"))
                     ELSE emitted, en)

\* lines 247-248: only mouse.Button.middle gets past the filter
on_mouse_click(button, is_pressed, en) ==
    IF button # "middle" THEN <<>>
    ELSE MouseLoop(1, is_pressed, <<>>, en)

(***************************************************************************)
(* listener_macos.py: the helpers of run()                                 *)
(***************************************************************************)
\* A Quartz event as event_callback reads it: its type, the keycode and
\* button fields and the flags, a set of kCGEventFlagMask* names.  On a
\* malformed event the first Quartz accessor the branch calls raises.
QEvent(type, keycode, flags, button, malformed) ==
    [type |-> type, keycode |-> keycode, flags |-> flags, button |-> button,
     malformed |-> malformed]

key_map == [ctrl |-> "control", super |-> "command", alt |-> "option", shift |-> "shift"]

convert_keys_to_macos(keys) ==
    {IF k \in DOMAIN key_map THEN key_map[k] ELSE k : k \in keys}

get_modifier_names(flags) ==
    {m \in {"control", "command", "option", "shift"} :
        \/ m = "control" /\ "MaskControl" \in flags
        \/ m = "command" /\ "MaskCommand" \in flags
        \/ m = "option" /\ "MaskAlternate" \in flags
        \/ m = "shift" /\ "MaskShift" \in flags}

\* keycode_map.get(keycode): the entries of the keycodes the model feeds
keycode_to_name(keycode) ==
    CASE keycode = 7 -> "x"
      [] keycode = 16 -> "y"
      [] OTHER -> None

\* lines 170-185: the loop over keyboard_hotkeys, from position i on
RECURSIVE CheckHotkeysLoop(_, _, _, _, _)
CheckHotkeysLoop(i, all_pressed, active, emitted, en) ==
    IF i > Len(HotkeyOrder) THEN [active |-> active, out |-> emitted]
    ELSE LET hotkey_id == HotkeyOrder[i]
             config == keyboard_hotkeys[hotkey_id]
             required_keys == convert_keys_to_macos(config.keys)
         IN IF ~en[hotkey_id]
            THEN CheckHotkeysLoop(i + 1, all_pressed, active, emitted, en)
            ELSE IF required_keys \subseteq all_pressed /\ hotkey_id \notin active
            THEN CheckHotkeysLoop(i + 1, all_pressed, active \cup {hotkey_id},
                     Append(emitted, hotkey_pressed(hotkey_id,
                         IF config.mode = "hold" THEN "press" ELSE "toggle")), en)
            ELSE CheckHotkeysLoop(i + 1, all_pressed, active, emitted, en)

\* lines 188-198: the loop over text_snippets, from position i on
RECURSIVE CheckSnippetsLoop(_, _, _, _, _)
CheckSnippetsLoop(i, all_pressed, active, emitted, en) ==
    IF i > Len(SnippetOrder) THEN [active |-> active, out |-> emitted]
    ELSE LET snip_id == SnippetOrder[i]
             snip_config == text_snippets[snip_id]
             required_keys == convert_keys_to_macos(snip_config.keys)
             snip_key == SnipKey(snip_id)
         IN IF ~en[snip_id]
            THEN CheckSnippetsLoop(i + 1, all_pressed, active, emitted, en)
            ELSE IF required_keys = all_pressed /\ snip_key \notin active
            THEN CheckSnippetsLoop(i + 1, all_pressed, active \cup {snip_key},
                     Append(emitted, snippet_triggered(snip_id, snip_config.text)), en)
            ELSE CheckSnippetsLoop(i + 1, all_pressed, active, emitted, en)

check_hotkeys(all_pressed, active, en) ==
    LET hk == CheckHotkeysLoop(1, all_pressed, active, <<>>, en)
    IN CheckSnippetsLoop(1, all_pressed, hk.active, hk.out, en)

\* lines 204-216: the loop over keyboard_hotkeys; active_combos itself is
\* only changed after the loops, through to_remove
RECURSIVE CheckReleasesLoop(_, _, _, _, _)
CheckReleasesLoop(i, released, active, to_remove, emitted) ==
    IF i > Len(HotkeyOrder) THEN [to_remove |-> to_remove, out |-> emitted]
    ELSE LET hotkey_id == HotkeyOrder[i]
             config == keyboard_hotkeys[hotkey_id]
             required_keys == convert_keys_to_macos(config.keys)
         IN IF hotkey_id \in active /\ released \cap required_keys # {}
            THEN CheckReleasesLoop(i + 1, released, active, to_remove \cup {hotkey_id},
                     IF config.mode = "hold"
                     THEN Append(emitted, hotkey_pressed(hotkey_id, "release"))
                     ELSE emitted)
            ELSE CheckReleasesLoop(i + 1, released, active, to_remove, emitted)

\* lines 219-226: the active keys "snippet:<id>" whose snippet holds a released key
ReleasedSnippetKeys(released, active) ==
    {snip_id \in active :
        \E real_id \in SnippetIds :
            /\ snip_id = "snippet:" \o real_id
            /\ released \cap convert_keys_to_macos(text_snippets[real_id].keys) # {}}

check_releases(released, active) ==
    LET hk == CheckReleasesLoop(1, released, active, {}, <<>>)
        to_remove == hk.to_remove \cup ReleasedSnippetKeys(released, active)
    IN [active |-> active \ to_remove, out |-> hk.out]

(***************************************************************************)
(* listener_macos.py: event_callback                                       *)
(***************************************************************************)
MState(pressed, active, last, emitted) ==
    [pressed |-> pressed, active |-> active, last |-> last, out |-> emitted]

\* lines 306-307: the except branch, entered with the state as it is by then
Caught(pressed, active, last) ==
    MState(pressed, active, last, <<LOG_error("Event callback error")>>)

\* lines 236-257 without line 251: the modifiers no longer held stay in pressed_keys
OnFlagsChanged_NoRemove(event, pressed, active, last, en) ==
    IF event.malformed THEN Caught(pressed, active, last)
    ELSE LET current_modifiers == get_modifier_names(event.flags)
             newly_pressed == current_modifiers \ last
             released == last \ current_modifiers
             rel == IF released # {} THEN check_releases(released, active)
                    ELSE [active |-> active, out |-> <<>>]
             p1 == pressed \cup current_modifiers
             chk == IF newly_pressed # {}
                    THEN check_hotkeys(p1 \cup current_modifiers, rel.active, en)
                    ELSE [active |-> rel.active, out |-> <<>>]
         IN MState(p1, chk.active, current_modifiers, rel.out \o chk.out)

\* lines 236-257
OnFlagsChanged(event, pressed, active, last, en) ==
    IF event.malformed THEN Caught(pressed, active, last)
    ELSE LET current_modifiers == get_modifier_names(event.flags)
             newly_pressed == current_modifiers \ last
             released == last \ current_modifiers
             rel == IF released # {} THEN check_releases(released, active)
                    ELSE [active |-> active, out |-> <<>>]
             p1 == (pressed \ {"control", "command", "option", "shift"}) \cup current_modifiers
             chk == IF newly_pressed # {}
                    THEN check_hotkeys(p1 \cup current_modifiers, rel.active, en)
                    ELSE [active |-> rel.active, out |-> <<>>]
         IN MState(p1, chk.active, current_modifiers, rel.out \o chk.out)

\* lines 259-269
OnKeyDown(event, pressed, active, last, en) ==
    IF event.malformed THEN Caught(pressed, active, last)
    ELSE LET key_name == keycode_to_name(event.keycode) IN
         IF key_name = None THEN MState(pressed, active, last, <<>>)
         ELSE LET p1 == pressed \cup {key_name}
                  chk == check_hotkeys(p1 \cup get_modifier_names(event.flags), active, en)
              IN MState(p1, chk.active, last, chk.out)

\* lines 271-281
OnKeyUp(event, pressed, active, last) ==
    IF event.malformed THEN Caught(pressed, active, last)
    ELSE LET key_name == keycode_to_name(event.keycode) IN
         IF key_name = None THEN MState(pressed, active, last, <<>>)
         ELSE LET rel == check_releases({key_name}, active)
              IN MState(pressed \ {key_name}, rel.active, last, rel.out)

\* lines 289-294 and 302-304: the loop over mouse_hotkeys, from position i on
RECURSIVE OtherMouseLoop(_, _, _, _)
OtherMouseLoop(i, is_down, emitted, en) ==
    IF i > Len(MouseOrder) THEN emitted
    ELSE LET mb_id == MouseOrder[i]
             cfg == mouse_hotkeys[mb_id]
         IN IF en[mb_id] /\ cfg.button = "middle" /\ (is_down \/ cfg.mode = "hold")
            THEN OtherMouseLoop(i + 1, is_down,
                     Append(emitted, mouse_button_event(mb_id,
                         IF ~is_down THEN "release"
                         ELSE IF cfg.mode = "hold" THEN "press" ELSE "toggle")), en)
            ELSE OtherMouseLoop(i + 1, is_down, emitted, en)

\* lines 283-304 with a middle button that also forgets the active combos
OnOtherMouse_ClearsActive(event, is_down, pressed, active, last, en) ==
    IF event.malformed THEN Caught(pressed, active, last)
    ELSE IF event.button = 2
    THEN MState(pressed, {}, last, OtherMouseLoop(1, is_down, <<>>, en))
    ELSE MState(pressed, active, last, <<>>)

\* lines 283-304
OnOtherMouse(event, is_down, pressed, active, last, en) ==
    IF event.malformed THEN Caught(pressed, active, last)
    ELSE IF event.button = 2
    THEN MState(pressed, active, last, OtherMouseLoop(1, is_down, <<>>, en))
    ELSE MState(pressed, active, last, <<>>)

event_callback(event, pressed, active, last, en) ==
    CASE event.type = "FlagsChanged" -> OnFlagsChanged(event, pressed, active, last, en)
      [] event.type = "KeyDown" -> OnKeyDown(event, pressed, active, last, en)
      [] event.type = "KeyUp" -> OnKeyUp(event, pressed, active, last)
      [] event.type = "OtherMouseDown" -> OnOtherMouse(event, TRUE, pressed, active, last, en)
      [] event.type = "OtherMouseUp" -> OnOtherMouse(event, FALSE, pressed, active, last, en)
      [] OTHER -> MState(pressed, active, last, <<>>)

(***************************************************************************)
(* The inputs the model feeds.                                             *)
(***************************************************************************)
\* pynput keys: ctrl, shift, an upper-case and a lower-case x, y, and a key
\* whose str() raises
RawKeys ==
    {PKey("ctrl_l"), PKey("shift"), PChar("x"), PChar("X"), PChar("y"), PBroken}

MouseButtons == {"middle", "left"}

\* flags of an event: Control and Shift are the modifiers of the configured
\* combos (event_callback never uses the flags of a KeyUp)
FlagSets == SUBSET {"MaskControl", "MaskShift"}

\* keycodes of x and y, and one keycode_map has no entry for
Keycodes == {7, 16, 10}

\* button numbers of the other-mouse events: 2 is the middle button
ButtonNumbers == {2, 3}

QuartzEventTypes ==
    {"FlagsChanged", "KeyDown", "KeyUp", "OtherMouseDown", "OtherMouseUp"}

QuartzEvents ==
    {QEvent("FlagsChanged", 0, f, 0, FALSE) : f \in FlagSets}
    \cup {QEvent("KeyDown", k, f, 0, FALSE) : k \in Keycodes, f \in FlagSets}
    \cup {QEvent("KeyUp", k, {}, 0, FALSE) : k \in Keycodes}
    \cup {QEvent(t, 0, {}, b, FALSE) : t \in {"OtherMouseDown", "OtherMouseUp"}, b \in ButtonNumbers}
    \cup {QEvent(t, 0, {}, 0, TRUE) : t \in QuartzEventTypes}
    \cup {QEvent("TapDisabledByTimeout", 0, {}, 0, FALSE)}

Event(src, arg) == [src |-> src, arg |-> arg]

NoEvent == Event("none", [kind |-> "None"])

(***************************************************************************)
(* Initial state: the object after __init__, before start().               *)
(***************************************************************************)
Configs ==
    {e \in [AllIds -> BOOLEAN] :
        /\ \A m \in MouseIds : e[m] = MouseEnabled[m]
        /\ Cardinality({d \in HotkeyIds \cup SnippetIds : ~e[d]}) <= MaxDisabled}

InitListener ==
    /\ backend \in {"pynput", "macos"}
    /\ enabled \in Configs
    /\ pressed_keys = {}
    /\ active_combos = {}
    /\ last_modifiers = {}
    /\ stop_event = FALSE
    /\ keyboard_listener = "none"
    /\ mouse_listener = "none"
    /\ tap = "none"
    /\ run_pc = "start"
    /\ stop_pc = "idle"
    /\ ev = NoEvent
    /\ out = <<>>

Init ==
    /\ InitListener
    /\ script = <<>>
    /\ pos = 0
    /\ log = <<>>

replay == <<script, pos, log>>

engine == <<pressed_keys, active_combos, last_modifiers>>

(***************************************************************************)
(* listener.py: run() and stop()                                           *)
(***************************************************************************)
\* Listener.stop()
Stopped(listener) == IF listener = "none" THEN "none" ELSE "stopped"

\* Listener.start(): a listener stopped before its start delivers nothing
Started(listener) == IF listener = "created" THEN "running" ELSE listener

\* a step of run() or stop(): no event handled, `emitted` sent
Plain(emitted) == ev' = NoEvent /\ out' = emitted

RunImport ==
    /\ backend = "pynput" /\ run_pc = "start"
    /\ \/ run_pc' = "create_keyboard" /\ Plain(<<>>)
       \/ run_pc' = "finally_keyboard" /\ Plain(<<listener_error("import pynput")>>)
    /\ UNCHANGED <<replay, backend, enabled, engine, stop_event, keyboard_listener, mouse_listener,
                   tap, stop_pc>>

RunCreateKeyboard ==
    /\ backend = "pynput" /\ run_pc = "create_keyboard"
    /\ keyboard_listener' = "created"
    /\ run_pc' = "create_mouse"
    /\ Plain(<<>>)
    /\ UNCHANGED <<replay, backend, enabled, engine, stop_event, mouse_listener, tap, stop_pc>>

RunCreateMouse ==
    /\ backend = "pynput" /\ run_pc = "create_mouse"
    /\ mouse_listener' = "created"
    /\ run_pc' = "start_keyboard"
    /\ Plain(<<>>)
    /\ UNCHANGED <<replay, backend, enabled, engine, stop_event, keyboard_listener, tap, stop_pc>>

RunStartKeyboard ==
    /\ backend = "pynput" /\ run_pc = "start_keyboard"
    /\ \/ /\ keyboard_listener' = Started(keyboard_listener)
          /\ run_pc' = "start_mouse"
          /\ Plain(<<>>)
       \/ /\ keyboard_listener' = keyboard_listener
          /\ run_pc' = "finally_keyboard"
          /\ Plain(<<listener_error("start listener")>>)
    /\ UNCHANGED <<replay, backend, enabled, engine, stop_event, mouse_listener, tap, stop_pc>>

RunStartMouse ==
    /\ backend = "pynput" /\ run_pc = "start_mouse"
    /\ mouse_listener' = Started(mouse_listener)
    /\ run_pc' = "loop"
    /\ Plain(<<>>)
    /\ UNCHANGED <<replay, backend, enabled, engine, stop_event, keyboard_listener, tap, stop_pc>>

\* lines 68-69: one test of the stop flag
RunPoll ==
    /\ backend = "pynput" /\ run_pc = "loop"
    /\ run_pc' = IF stop_event THEN "finally_keyboard" ELSE "loop"
    /\ Plain(<<>>)
    /\ UNCHANGED <<replay, backend, enabled, engine, stop_event, keyboard_listener, mouse_listener,
                   tap, stop_pc>>

RunFinallyKeyboard ==
    /\ backend = "pynput" /\ run_pc = "finally_keyboard"
    /\ keyboard_listener' = Stopped(keyboard_listener)
    /\ run_pc' = "finally_mouse"
    /\ Plain(<<>>)
    /\ UNCHANGED <<replay, backend, enabled, engine, stop_event, mouse_listener, tap, stop_pc>>

RunFinallyMouse ==
    /\ backend = "pynput" /\ run_pc = "finally_mouse"
    /\ mouse_listener' = Stopped(mouse_listener)
    /\ run_pc' = "done"
    /\ Plain(<<>>)
    /\ UNCHANGED <<replay, backend, enabled, engine, stop_event, keyboard_listener, tap, stop_pc>>

\* line 38 (listener.py) and line 85 (listener_macos.py)
StopSetEvent ==
    /\ stop_pc = "idle"
    /\ stop_event' = TRUE
    /\ stop_pc' = IF backend = "pynput" THEN "keyboard" ELSE "done"
    /\ Plain(<<>>)
    /\ UNCHANGED <<replay, backend, enabled, engine, keyboard_listener, mouse_listener, tap, run_pc>>

StopKeyboard ==
    /\ backend = "pynput" /\ stop_pc = "keyboard"
    /\ keyboard_listener' = Stopped(keyboard_listener)
    /\ stop_pc' = "mouse"
    /\ Plain(<<>>)
    /\ UNCHANGED <<replay, backend, enabled, engine, stop_event, mouse_listener, tap, run_pc>>

StopMouse ==
    /\ backend = "pynput" /\ stop_pc = "mouse"
    /\ mouse_listener' = Stopped(mouse_listener)
    /\ stop_pc' = "done"
    /\ Plain(<<>>)
    /\ UNCHANGED <<replay, backend, enabled, engine, stop_event, keyboard_listener, tap, run_pc>>

(***************************************************************************)
(* listener.py: the callbacks, run on the listeners' threads               *)
(***************************************************************************)
Apply(o) ==
    /\ pressed_keys' = o.pressed
    /\ active_combos' = o.active
    /\ out' = o.out

\* the keyboard listener's thread calls _on_key_press(key)
CallKeyPress(key) ==
    /\ backend = "pynput" /\ keyboard_listener = "running"
    /\ Apply(on_key_press(key, pressed_keys, active_combos, enabled))
    /\ ev' = Event("key_press", key)
    /\ UNCHANGED <<backend, enabled, last_modifiers, stop_event, keyboard_listener,
                   mouse_listener, tap, run_pc, stop_pc>>

KeyPress(key) == CallKeyPress(key) /\ UNCHANGED replay

\* the keyboard listener's thread calls _on_key_release(key)
CallKeyRelease(key) ==
    /\ backend = "pynput" /\ keyboard_listener = "running"
    /\ Apply(on_key_release(key, pressed_keys, active_combos))
    /\ ev' = Event("key_release", key)
    /\ UNCHANGED <<backend, enabled, last_modifiers, stop_event, keyboard_listener,
                   mouse_listener, tap, run_pc, stop_pc>>

KeyRelease(key) == CallKeyRelease(key) /\ UNCHANGED replay

MouseClick(button, is_pressed) ==
    /\ backend = "pynput" /\ mouse_listener = "running"
    /\ out' = on_mouse_click(button, is_pressed, enabled)
    /\ ev' = Event(IF is_pressed THEN "mouse_down" ELSE "mouse_up",
                 [kind |-> "Button", name |-> button])
    /\ UNCHANGED <<replay, backend, enabled, engine, stop_event, keyboard_listener,
                   mouse_listener, tap, run_pc, stop_pc>>

(***************************************************************************)
(* listener_macos.py: run()                                                *)
(***************************************************************************)
MacImport ==
    /\ backend = "macos" /\ run_pc = "start"
    /\ \/ run_pc' = "create_tap" /\ Plain(<<>>)
       \/ run_pc' = "done" /\ Plain(<<listener_error("import Quartz")>>)
    /\ UNCHANGED <<replay, backend, enabled, engine, stop_event, keyboard_listener, mouse_listener,
                   tap, stop_pc>>

\* lines 321-348: CGEventTapCreate, the run loop source, CGEventTapEnable
MacCreateTap ==
    /\ backend = "macos" /\ run_pc = "create_tap"
    /\ \/ tap' = "enabled" /\ run_pc' = "loop" /\ Plain(<<>>)
       \/ tap' = "none" /\ run_pc' = "done" /\ Plain(<<listener_error("create tap")>>)
    /\ UNCHANGED <<replay, backend, enabled, engine, stop_event, keyboard_listener, mouse_listener,
                   stop_pc>>

\* line 353: the test of the stop flag
MacLoopCheck ==
    /\ backend = "macos" /\ run_pc = "loop"
    /\ run_pc' = IF stop_event THEN "done" ELSE "runloop"
    /\ Plain(<<>>)
    /\ UNCHANGED <<replay, backend, enabled, engine, stop_event, keyboard_listener, mouse_listener,
                   tap, stop_pc>>

\* line 355: CFRunLoopRunInMode delivers an event of the tap to event_callback
CallEventCallback(event) ==
    /\ backend = "macos" /\ run_pc = "runloop" /\ tap = "enabled"
    /\ LET r == event_callback(event, pressed_keys, active_combos, last_modifiers, enabled)
       IN /\ pressed_keys' = r.pressed
          /\ active_combos' = r.active
          /\ last_modifiers' = r.last
          /\ out' = r.out
    /\ ev' = Event("event_callback", event)
    /\ UNCHANGED <<backend, enabled, stop_event, keyboard_listener, mouse_listener, tap,
                   run_pc, stop_pc>>

MacEvent(event) == CallEventCallback(event) /\ UNCHANGED replay

\* lines 355-360: CFRunLoopRunInMode returns; a disabled tap is enabled again
MacRunLoopReturn ==
    /\ backend = "macos" /\ run_pc = "runloop"
    /\ tap' = "enabled"
    /\ run_pc' = "loop"
    /\ Plain(<<>>)
    /\ UNCHANGED <<replay, backend, enabled, engine, stop_event, keyboard_listener, mouse_listener,
                   stop_pc>>

\* the system disables a tap (timeout, user input): what lines 357-360 recover from
TapDisabledBySystem ==
    /\ backend = "macos" /\ tap = "enabled"
    /\ tap' = "disabled"
    /\ Plain(<<>>)
    /\ UNCHANGED <<replay, backend, enabled, engine, stop_event, keyboard_listener, mouse_listener,
                   run_pc, stop_pc>>

Next ==
    \/ RunImport \/ RunCreateKeyboard \/ RunCreateMouse \/ RunStartKeyboard
    \/ RunStartMouse \/ RunPoll \/ RunFinallyKeyboard \/ RunFinallyMouse
    \/ StopSetEvent \/ StopKeyboard \/ StopMouse
    \/ \E key \in RawKeys : KeyPress(key)
    \/ \E key \in RawKeys : KeyRelease(key)
    \/ \E button \in MouseButtons, is_pressed \in BOOLEAN : MouseClick(button, is_pressed)
    \/ MacImport \/ MacCreateTap \/ MacLoopCheck \/ MacRunLoopReturn \/ TapDisabledBySystem
    \/ \E event \in QuartzEvents : MacEvent(event)

Spec == Init /\ [][Next]_vars

(***************************************************************************)
(* Scheduling.  The thread of run() keeps running: time.sleep(0.1) and     *)
(* CFRunLoopRunInMode(..., 0.1, False) return, and so does every other     *)
(* statement of run(); the caller of stop() runs it to its end.  Nothing   *)
(* is assumed about the arrival of events.                                 *)
(***************************************************************************)
RunStep ==
    \/ RunImport \/ RunCreateKeyboard \/ RunCreateMouse \/ RunStartKeyboard
    \/ RunStartMouse \/ RunPoll \/ RunFinallyKeyboard \/ RunFinallyMouse
    \/ MacImport \/ MacCreateTap \/ MacLoopCheck \/ MacRunLoopReturn

StopStep == StopKeyboard \/ StopMouse

SpecLive == Spec /\ WF_vars(RunStep) /\ WF_vars(StopStep)

(***************************************************************************)
(* Configuration changes while the listener runs.  Both listeners read     *)
(* config.enabled from self._config on every event; the owner of the       *)
(* settings object flips the flag of a definition (on macOS through        *)
(* update_config).  Nothing else of the listener is touched.               *)
(***************************************************************************)
\* a change of configuration that also forgets the definition's active entry
SetEnabled_ClearsActive(d, b) ==
    /\ enabled[d] # b
    /\ Cardinality({x \in (HotkeyIds \cup SnippetIds) \ {d} : ~enabled[x]}) + (IF b THEN 0 ELSE 1)
           <= MaxDisabled
    /\ enabled' = [enabled EXCEPT ![d] = b]
    /\ active_combos' = active_combos \ {d}
    /\ Plain(<<>>)
    /\ UNCHANGED <<replay, backend, pressed_keys, last_modifiers, stop_event, keyboard_listener,
                   mouse_listener, tap, run_pc, stop_pc>>

\* config.enabled of definition d becomes b
SetEnabled(d, b) ==
    /\ enabled[d] # b
    /\ Cardinality({x \in (HotkeyIds \cup SnippetIds) \ {d} : ~enabled[x]}) + (IF b THEN 0 ELSE 1)
           <= MaxDisabled
    /\ enabled' = [enabled EXCEPT ![d] = b]
    /\ Plain(<<>>)
    /\ UNCHANGED <<replay, backend, engine, stop_event, keyboard_listener, mouse_listener,
                   tap, run_pc, stop_pc>>

\* run() up to its loop, the keyboard events, and the changes of configuration
NextConfig ==
    \/ RunImport \/ RunCreateKeyboard \/ RunCreateMouse \/ RunStartKeyboard
    \/ RunStartMouse \/ RunPoll
    \/ MacImport \/ MacCreateTap \/ MacLoopCheck \/ MacRunLoopReturn
    \/ \E key \in RawKeys : KeyPress(key)
    \/ \E key \in RawKeys : KeyRelease(key)
    \/ \E event \in QuartzEvents : MacEvent(event)
    \/ \E d \in HotkeyIds \cup SnippetIds, b \in BOOLEAN : SetEnabled(d, b)

SpecConfig == Init /\ [][NextConfig]_vars

(***************************************************************************)
(* Vocabulary of the properties.                                           *)
(***************************************************************************)
\* how often signal s occurs in the emission o
NumSig(o, s) == Cardinality({i \in DOMAIN o : o[i] = s})

\* how many Press and Toggle signals o holds for hotkey d
NumActivations(o, d) ==
    NumSig(o, hotkey_pressed(d, "press")) + NumSig(o, hotkey_pressed(d, "toggle"))

\* the Press or Toggle signal of hotkey d, by its mode
ActivationOf(d) ==
    hotkey_pressed(d, IF keyboard_hotkeys[d].mode = "hold" THEN "press" ELSE "toggle")

\* the keys of hotkey d in the key names of the listener in use
ReqKeys(d) ==
    IF backend = "pynput" THEN keyboard_hotkeys[d].keys
    ELSE convert_keys_to_macos(keyboard_hotkeys[d].keys)

\* e is the pynput KeyDown / KeyUp of a key normalised to k
IsPKeyDown(e, k) ==
    e.src = "key_press" /\ normalize_key(e.arg).ok /\ normalize_key(e.arg).name = k

IsPKeyUp(e, k) ==
    e.src = "key_release" /\ normalize_key(e.arg).ok /\ normalize_key(e.arg).name = k

\* e is a key-down event of either listener (on macOS a KeyDown or a FlagsChanged)
IsKeyDownEvent(e) ==
    \/ e.src = "key_press"
    \/ e.src = "event_callback" /\ e.arg.type \in {"KeyDown", "FlagsChanged"}

(***************************************************************************)
(* Replay runs: the user types the keys of one configured combo in some    *)
(* order, releases them in some order, and then does the same again.  The  *)
(* listener is started by run() as in Spec; the only events are the typed  *)
(* keys, delivered as the platform delivers them.                          *)
(***************************************************************************)
KeyStroke(dir, k) == [dir |-> dir, key |-> k]

\* the orders in which the keys of S can be pressed (or released)
Orders(S) ==
    {p \in [1..Cardinality(S) -> S] : \A k \in S : \E i \in DOMAIN p : p[i] = k}

PressThenRelease(p, r) ==
    [i \in 1..Len(p) |-> KeyStroke("down", p[i])] \o [i \in 1..Len(r) |-> KeyStroke("up", r[i])]

Scripts ==
    UNION {{PressThenRelease(p, r) : p \in Orders(keyboard_hotkeys[d].keys),
                                     r \in Orders(keyboard_hotkeys[d].keys)} : d \in HotkeyIds}

\* the keys the user holds after the first n strokes of a round
Held(n) ==
    {script[i].key : i \in {j \in 1..n : script[j].dir = "down"}}
        \ {script[i].key : i \in {j \in 1..n : script[j].dir = "up"}}

\* the pynput key of a key name
RawOf(k) ==
    CHOOSE key \in RawKeys \ {PChar("X")} : normalize_key(key).ok /\ normalize_key(key).name = k

\* the Quartz event of the n-th stroke of a round: a FlagsChanged with the
\* modifiers now held for a modifier, a KeyDown/KeyUp with the flags of the
\* modifiers held for another key
QuartzOf(n) ==
    LET stroke == script[n]
        flags == CHOOSE f \in FlagSets :
                     get_modifier_names(f)
                         = convert_keys_to_macos(Held(n)) \cap {"control", "command", "option", "shift"}
    IN IF stroke.key \in DOMAIN key_map
       THEN QEvent("FlagsChanged", 0, flags, 0, FALSE)
       ELSE QEvent(IF stroke.dir = "down" THEN "KeyDown" ELSE "KeyUp",
                   CHOOSE kc \in Keycodes : keycode_to_name(kc) = stroke.key,
                   IF stroke.dir = "down" THEN flags ELSE {}, 0, FALSE)

InitReplay ==
    /\ InitListener
    /\ script \in Scripts
    /\ pos = 0
    /\ log = [r \in 1..MaxRounds |-> <<>>]

\* the user's next key stroke reaches the listener
Type ==
    /\ pos < MaxRounds * Len(script)
    /\ LET n == (pos % Len(script)) + 1
           round == (pos \div Len(script)) + 1
       IN /\ IF backend = "pynput"
             THEN IF script[n].dir = "down"
                  THEN CallKeyPress(RawOf(script[n].key))
                  ELSE CallKeyRelease(RawOf(script[n].key))
             ELSE CallEventCallback(QuartzOf(n))
          /\ log' = [log EXCEPT ![round] = @ \o out']
    /\ pos' = pos + 1
    /\ script' = script

NextReplay ==
    \/ RunImport \/ RunCreateKeyboard \/ RunCreateMouse \/ RunStartKeyboard
    \/ RunStartMouse \/ RunPoll
    \/ MacImport \/ MacCreateTap \/ MacLoopCheck \/ MacRunLoopReturn
    \/ Type

SpecReplay == InitReplay /\ [][NextReplay]_vars

(***************************************************************************)
(* C6. Idempotent reset, both listeners, Hold and Toggle alike: after the  *)
(* keys of a combo were pressed (in any order) and all released (in any    *)
(* order), pressed and active are empty again; the first round activated   *)
(* the combo exactly once (and released it once if it is a Hold); typing   *)
(* the same sequence again emits the identical sequence of signals.        *)
(***************************************************************************)
ScriptKeys == {script[i].key : i \in DOMAIN script}

C6_IdempotentReset ==
    /\ (pos > 0 /\ pos % Len(script) = 0) => (pressed_keys = {} /\ active_combos = {})
    /\ pos >= Len(script) =>
          \A d \in HotkeyIds :
              (enabled[d] /\ keyboard_hotkeys[d].keys = ScriptKeys)
                  => /\ NumSig(log[1], ActivationOf(d)) = 1
                     /\ NumSig(log[1], hotkey_pressed(d, "release"))
                            = (IF keyboard_hotkeys[d].mode = "hold" THEN 1 ELSE 0)
    /\ \A r \in 2..MaxRounds : pos >= r * Len(script) => log[r] = log[1]

\* {ctrl, shift, x} typed twice: Press and Release of hold_csx in both rounds
C6_Witness ==
    /\ ScriptKeys = {"ctrl", "shift", "x"}
    /\ pos = 2 * Len(script)
    /\ NumSig(log[1], hotkey_pressed("hold_csx", "press")) = 1
    /\ NumSig(log[2], hotkey_pressed("hold_csx", "release")) = 1
    /\ log[2] = log[1]
    /\ pressed_keys = {} /\ active_combos = {}

(***************************************************************************)
(* C1. Modifier guard on KeyUp, pynput listener: with the Hold combo       *)
(* {ctrl, shift, x}, the KeyDown of x on top of ctrl and shift emits       *)
(* Press; while the combo is active and x is pressed a KeyUp(shift) emits  *)
(* no Release and leaves the id in active; a KeyUp(x) of the active combo  *)
(* emits exactly one Release and removes the id from active.               *)
(***************************************************************************)
C1_ModifierGuardKeyUp ==
    [][backend = "pynput" =>
        /\ ( /\ enabled["hold_csx"] /\ "hold_csx" \notin active_combos
             /\ {"ctrl", "shift"} \subseteq pressed_keys
             /\ IsPKeyDown(ev', "x") )
           => /\ NumSig(out', hotkey_pressed("hold_csx", "press")) = 1
              /\ "hold_csx" \in active_combos'
        /\ ( /\ "hold_csx" \in active_combos /\ "x" \in pressed_keys
             /\ IsPKeyUp(ev', "shift") )
           => /\ NumSig(out', hotkey_pressed("hold_csx", "release")) = 0
              /\ "hold_csx" \in active_combos'
        /\ ( /\ "hold_csx" \in active_combos
             /\ IsPKeyUp(ev', "x") )
           => /\ NumSig(out', hotkey_pressed("hold_csx", "release")) = 1
              /\ "hold_csx" \notin active_combos'
    ]_vars

\* KeyUp(shift) was handled with x still down: the combo is still active
C1_Witness ==
    /\ backend = "pynput" /\ enabled["hold_csx"]
    /\ IsPKeyUp(ev, "shift")
    /\ "hold_csx" \in active_combos
    /\ pressed_keys = {"ctrl", "x"}
    /\ out = <<>>

(***************************************************************************)
(* C2. Subset match, exactly once, both listeners: after every event an    *)
(* enabled definition whose keys are all pressed is in active; the         *)
(* key-down event that puts an inactive enabled definition's keys into the *)
(* pressed set inserts its id and emits exactly one Press (Hold) or Toggle *)
(* (Toggle); no event emits a Press or Toggle for an id already in active. *)
(***************************************************************************)
C2_SubsetMatchOnce ==
    [][\A d \in HotkeyIds :
        /\ (enabled[d] /\ ReqKeys(d) \subseteq pressed_keys') => d \in active_combos'
        /\ ( /\ enabled[d] /\ d \notin active_combos
             /\ IsKeyDownEvent(ev') /\ ReqKeys(d) \subseteq pressed_keys' )
           => /\ NumSig(out', ActivationOf(d)) = 1
              /\ NumActivations(out', d) = 1
        /\ d \in active_combos => NumActivations(out', d) = 0
    ]_vars

\* a KeyDown with an extra key held activated the toggle combo {ctrl, x}
C2_Witness ==
    /\ IsKeyDownEvent(ev)
    /\ enabled["toggle_cx"]
    /\ ReqKeys("toggle_cx") \subseteq pressed_keys
    /\ "y" \in pressed_keys
    /\ out = <<hotkey_pressed("toggle_cx", "toggle")>>

(***************************************************************************)
(* C3. Exact match for snippets, both listeners.  The pressed set of an    *)
(* event is the set the listener matches against: the tracked keys, on a   *)
(* macOS KeyDown together with the modifiers of the event's flags.  A      *)
(* SnippetTriggered is emitted only by an event after which that set       *)
(* equals the keys of the (enabled) snippet, never with a strict superset  *)
(* or subset pressed, and a KeyDown that makes it equal emits it once.     *)
(***************************************************************************)
SnipReqKeys(s) ==
    IF backend = "pynput" THEN text_snippets[s].keys
    ELSE convert_keys_to_macos(text_snippets[s].keys)

\* e is a KeyDown that the listener handles down to the matching
IsHandledKeyDown(e) ==
    \/ e.src = "key_press" /\ normalize_key(e.arg).ok
    \/ /\ e.src = "event_callback" /\ e.arg.type = "KeyDown" /\ ~e.arg.malformed
       /\ keycode_to_name(e.arg.keycode) # None

AllPressedAfter(e, pressed) ==
    IF e.src = "event_callback" /\ IsHandledKeyDown(e)
    THEN pressed \cup get_modifier_names(e.arg.flags)
    ELSE pressed

C3_SnippetExactMatch ==
    [][\A s \in SnippetIds :
        LET trig == NumSig(out', snippet_triggered(s, text_snippets[s].text)) IN
        /\ trig > 0 => /\ AllPressedAfter(ev', pressed_keys') = SnipReqKeys(s)
                       /\ enabled[s]
                       /\ trig = 1
        /\ ( /\ enabled[s] /\ IsHandledKeyDown(ev')
             /\ pressed_keys # SnipReqKeys(s)
             /\ AllPressedAfter(ev', pressed_keys') = SnipReqKeys(s) )
           => trig = 1
    ]_vars

\* the KeyDown of y on top of x triggered the snippet {x, y}
C3_Witness ==
    /\ IsHandledKeyDown(ev)
    /\ pressed_keys = {"x", "y"}
    /\ out = <<snippet_triggered("snip_xy", "hello")>>

(***************************************************************************)
(* C4. Toggle fires once per press, never on release, both listeners: a    *)
(* Toggle-mode definition never emits Release; its Toggle is emitted only  *)
(* by an event before which its id was not in active and after which all   *)
(* its keys are pressed; the release of one of its keys while it is active *)
(* removes the id from active and emits nothing for it.                    *)
(***************************************************************************)
\* e releases key k (in the listener's key names): a KeyUp, or on macOS a
\* FlagsChanged whose flags no longer hold the modifier k of last_modifiers
Releases(e, k, last) ==
    \/ e.src = "key_release" /\ normalize_key(e.arg).ok /\ normalize_key(e.arg).name = k
    \/ /\ e.src = "event_callback" /\ e.arg.type = "KeyUp" /\ ~e.arg.malformed
       /\ keycode_to_name(e.arg.keycode) = k
    \/ /\ e.src = "event_callback" /\ e.arg.type = "FlagsChanged" /\ ~e.arg.malformed
       /\ k \in last \ get_modifier_names(e.arg.flags)

ToggleIds == {d \in HotkeyIds : keyboard_hotkeys[d].mode = "toggle"}

C5_PureModifierCombo ==
    [][LET d == "hold_cs" IN
        /\ ( /\ enabled[d] /\ d \notin active_combos
             /\ ReqKeys(d) \subseteq pressed_keys' )
           => /\ NumSig(out', hotkey_pressed(d, "press")) = 1
              /\ d \in active_combos'
        /\ (d \in active_combos /\ \E k \in ReqKeys(d) : Releases(ev', k, last_modifiers))
           => /\ NumSig(out', hotkey_pressed(d, "release")) = 1
              /\ d \notin active_combos'
    ]_vars

\* shift was released with ctrl still down: Release emitted, id removed
C5_Witness ==
    /\ enabled["hold_cs"]
    /\ \E k \in {"shift"} : Releases(ev, k, {"shift", "control"})
    /\ "hold_cs" \notin active_combos
    /\ pressed_keys \in {{"ctrl"}, {"control"}}
    /\ NumSig(out, hotkey_pressed("hold_cs", "release")) = 1

(***************************************************************************)
(* C7. Mouse middle button, both listeners: a MouseDown(middle) emits, for *)
(* each enabled definition bound to middle, Press (Hold) or Toggle         *)
(* (Toggle); a MouseUp(middle) emits Release for the Hold ones only;       *)
(* disabled definitions and other buttons emit nothing; every MouseDown    *)
(* emits, whatever came before.                                            *)
(***************************************************************************)
IsMouseEvent(e, down) ==
    \/ e.src = (IF down THEN "mouse_down" ELSE "mouse_up")
    \/ /\ e.src = "event_callback" /\ ~e.arg.malformed
       /\ e.arg.type = (IF down THEN "OtherMouseDown" ELSE "OtherMouseUp")

IsMiddle(e) ==
    IF e.src = "event_callback" THEN e.arg.button = 2 ELSE e.arg.name = "middle"

\* the signal a definition owes to a middle-button event, None for none
MouseAction(m, down) ==
    IF ~enabled[m] \/ mouse_hotkeys[m].button # "middle" THEN None
    ELSE IF down THEN (IF mouse_hotkeys[m].mode = "hold" THEN "press" ELSE "toggle")
    ELSE (IF mouse_hotkeys[m].mode = "hold" THEN "release" ELSE None)

Raised(e) ==
    \/ e.src \in {"key_press", "key_release"} /\ ~normalize_key(e.arg).ok
    \/ e.src = "event_callback" /\ e.arg.malformed

C8_ErrorIsolation ==
    [][Raised(ev') =>
        /\ \E i \in DOMAIN out' : out'[i].sig = "listener_error"
        /\ pressed_keys' = pressed_keys
        /\ active_combos' = active_combos
        /\ last_modifiers' = last_modifiers
    ]_vars

(***************************************************************************)
(* C9. Modifier guard on ModifierChanged, macOS listener: while a Hold     *)
(* definition with a non-modifier key is active and one of its             *)
(* non-modifier keys is pressed, a FlagsChanged that removes one of its    *)
(* modifiers emits no Release and leaves the id in active.                 *)
(***************************************************************************)
MacModifiers == {"control", "command", "option", "shift"}

C9_ModifierGuardFlagsChanged ==
    [][\A d \in HotkeyIds :
        ( /\ backend = "macos"
          /\ keyboard_hotkeys[d].mode = "hold"
          /\ d \in active_combos
          /\ (ReqKeys(d) \ MacModifiers) \cap pressed_keys # {}
          /\ ev'.src = "event_callback" /\ ev'.arg.type = "FlagsChanged"
          /\ \E k \in ReqKeys(d) \cap MacModifiers : Releases(ev', k, last_modifiers) )
        => /\ NumSig(out', hotkey_pressed(d, "release")) = 0
           /\ d \in active_combos'
    ]_vars

(***************************************************************************)
(* C10. No processing after stop, both listeners: once stop() has set the  *)
(* stop flag, no step changes pressed or active or emits a hotkey, mouse   *)
(* or snippet signal.                                                      *)
(***************************************************************************)
C10_NoProcessingAfterStop ==
    [][stop_event =>
        /\ pressed_keys' = pressed_keys
        /\ active_combos' = active_combos
        /\ \A i \in DOMAIN out' :
               out'[i].sig \notin {"hotkey_pressed", "mouse_button_event", "snippet_triggered"}
    ]_vars

(***************************************************************************)
(* C11. Disable does not clear an active entry, both listeners: the step   *)
(* that flips config.enabled changes neither pressed nor active and emits  *)
(* nothing; a disabled definition whose id is in active leaves active only *)
(* by the release of one of its keys, under the same conditions as an      *)
(* enabled one, and then emits Release if it is a Hold; a disabled         *)
(* definition is never inserted into active and never emits Press/Toggle.  *)
(***************************************************************************)
\* the release of key k ends the activation of d (pynput: unless guarded)
Ends(d, k) ==
    /\ k \in ReqKeys(d)
    /\ backend = "pynput" => ~ReleaseGuarded(keyboard_hotkeys[d], k, pressed_keys)

C11_DisableKeepsActive ==
    [][/\ enabled' # enabled => (active_combos' = active_combos /\ pressed_keys' = pressed_keys
                                 /\ out' = <<>>)
       /\ \A d \in HotkeyIds :
            /\ (~enabled[d] /\ d \in active_combos) =>
                  /\ d \notin active_combos'
                        <=> \E k \in ReqKeys(d) : Releases(ev', k, last_modifiers) /\ Ends(d, k)
                  /\ NumSig(out', hotkey_pressed(d, "release"))
                        = (IF d \notin active_combos' /\ keyboard_hotkeys[d].mode = "hold"
                           THEN 1 ELSE 0)
            /\ (enabled[d] /\ d \in active_combos) =>
                  (d \notin active_combos'
                        <=> \E k \in ReqKeys(d) : Releases(ev', k, last_modifiers) /\ Ends(d, k))
            /\ (~enabled[d] /\ d \notin active_combos) =>
                  (d \notin active_combos' /\ NumActivations(out', d) = 0)
    ]_vars

\* the keys of the disabled, still active Hold combo {ctrl, shift} were let
\* go: its Release was emitted and its entry removed
C11_Witness ==
    /\ ~enabled["hold_cs"]
    /\ "hold_cs" \notin active_combos
    /\ out = <<hotkey_pressed("hold_cs", "release")>>

(***************************************************************************)
(* C12. No arbitration between definitions, both listeners: on a key-down  *)
(* event every enabled definition whose keys are all in the set the        *)
(* listener matches against and whose id is not in active is inserted into *)
(* active and emits its own Press/Toggle, once, during that event, however *)
(* many other definitions (with the same keys, or with a subset or a       *)
(* superset of them) are activated by the same event; the event emits no   *)
(* other activation.                                                       *)
(***************************************************************************)
\* e is an event on which the listener matches the definitions
IsMatchingEvent(e, last) ==
    \/ IsHandledKeyDown(e)
    \/ /\ e.src = "event_callback" /\ e.arg.type = "FlagsChanged" /\ ~e.arg.malformed
       /\ get_modifier_names(e.arg.flags) \ last # {}

C12_NoArbitration ==
    [][IsMatchingEvent(ev', last_modifiers) =>
        LET satisfied == {d \in HotkeyIds :
                             /\ enabled[d] /\ d \notin active_combos
                             /\ ReqKeys(d) \subseteq AllPressedAfter(ev', pressed_keys')}
        IN /\ \A d \in satisfied :
                  d \in active_combos' /\ NumSig(out', ActivationOf(d)) = 1
           /\ Cardinality({i \in DOMAIN out' : /\ out'[i].sig = "hotkey_pressed"
                                                /\ out'[i].arg \in {"press", "toggle"}})
                  = Cardinality(satisfied)
    ]_vars

\* one KeyDown activated the toggle {ctrl, x} and both definitions of {ctrl, x, y}
C12_Witness ==
    /\ IsHandledKeyDown(ev)
    /\ out = <<hotkey_pressed("toggle_cx", "toggle"), hotkey_pressed("hold_cxy", "press"),
               hotkey_pressed("toggle_cxy", "toggle")>>
    /\ {"toggle_cx", "hold_cxy", "toggle_cxy"} \subseteq active_combos

(***************************************************************************)
(* C13. Snippet triggers on the event that makes pressed equal its keys,   *)
(* both listeners: whenever an event (a KeyDown, a KeyUp that removes an   *)
(* extra key, a FlagsChanged) changes the pressed set so that it equals    *)
(* the keys of an enabled snippet whose guard "snippet:"+id is not in      *)
(* active, the guard is inserted into active and SnippetTriggered is       *)
(* emitted once during that event.                                         *)
(***************************************************************************)
C13_SnippetOnAnyEvent ==
    [][\A s \in SnippetIds :
        ( /\ enabled[s] /\ SnipKey(s) \notin active_combos
          /\ pressed_keys' # pressed_keys
          /\ AllPressedAfter(ev', pressed_keys') = SnipReqKeys(s) )
        => /\ SnipKey(s) \in active_combos'
           /\ NumSig(out', snippet_triggered(s, text_snippets[s].text)) = 1
    ]_vars

(***************************************************************************)
(* C14. Snippet is one-shot with a re-armable guard, both listeners: while *)
(* the guard "snippet:"+id is in active, an event that releases none of    *)
(* the snippet's keys keeps the guard and emits no SnippetTriggered (a     *)
(* repeated KeyDown of the held chord does not trigger again); the release *)
(* of one of the snippet's keys removes the guard and emits no signal for  *)
(* the snippet; with the guard cleared, a KeyDown with exactly the chord   *)
(* pressed triggers the snippet again.                                     *)
(***************************************************************************)
C14_SnippetOneShot ==
    [][\A s \in SnippetIds :
        LET trig == NumSig(out', snippet_triggered(s, text_snippets[s].text))
            released == \E k \in SnipReqKeys(s) : Releases(ev', k, last_modifiers)
        IN /\ (SnipKey(s) \in active_combos /\ ~released)
                 => (trig = 0 /\ SnipKey(s) \in active_combos')
           /\ (SnipKey(s) \in active_combos /\ released)
                 => /\ SnipKey(s) \notin active_combos'
                    /\ \A i \in DOMAIN out' : out'[i].id # s
           /\ ( /\ SnipKey(s) \notin active_combos /\ enabled[s]
                /\ IsHandledKeyDown(ev')
                /\ AllPressedAfter(ev', pressed_keys') = SnipReqKeys(s) )
                 => (trig = 1 /\ SnipKey(s) \in active_combos')
    ]_vars

\* a KeyDown repeated with the chord {x, y} held and its guard set: nothing emitted
C14_Witness ==
    /\ IsHandledKeyDown(ev)
    /\ enabled["snip_xy"]
    /\ AllPressedAfter(ev, pressed_keys) = {"x", "y"}
    /\ SnipKey("snip_xy") \in active_combos
    /\ out = <<>>

(***************************************************************************)
(* C15. State unchanged on a processing error, both listeners: when the    *)
(* handling of an event raises, pressed and active after the event are     *)
(* what they were before it, and exactly one listener_error is emitted     *)
(* for the event.                                                          *)
(***************************************************************************)
C15_StateUnchangedOnError ==
    [][Raised(ev') =>
        /\ pressed_keys' = pressed_keys
        /\ active_combos' = active_combos
        /\ Cardinality({i \in DOMAIN out' : out'[i].sig = "listener_error"}) = 1
    ]_vars

(***************************************************************************)
(* C16. Pressed-set tracking and KeyUp ordering: a KeyDown of key k leaves *)
(* pressed = pressed + {k}, a KeyUp of k leaves pressed = pressed - {k},   *)
(* and an event that is neither (nor a FlagsChanged) leaves pressed as it  *)
(* was, so that pressed is the set of keys whose last event was a KeyDown; *)
(* on a KeyUp(k) of the pynput listener the release guard is decided       *)
(* against the pressed set of before the event, in which k still is: an    *)
(* active Hold definition with non-modifier keys ends iff k is one of      *)
(* them and no other of them is in pressed - {k}.                          *)
(***************************************************************************)
\* the key names the events of the model carry
TrackedKeys ==
    {normalize_key(key).name : key \in {r \in RawKeys : normalize_key(r).ok}}
        \cup ({keycode_to_name(kc) : kc \in Keycodes} \ {None})

KeyDownOf(e, k) ==
    \/ IsPKeyDown(e, k)
    \/ /\ e.src = "event_callback" /\ e.arg.type = "KeyDown" /\ ~e.arg.malformed
       /\ keycode_to_name(e.arg.keycode) = k

KeyUpOf(e, k) ==
    \/ IsPKeyUp(e, k)
    \/ /\ e.src = "event_callback" /\ e.arg.type = "KeyUp" /\ ~e.arg.malformed
       /\ keycode_to_name(e.arg.keycode) = k

NonModifierKeys(d) == keyboard_hotkeys[d].keys \ modifier_keys

C16_PressedTracking ==
    [][/\ \A k \in TrackedKeys :
            /\ KeyDownOf(ev', k) => pressed_keys' = pressed_keys \cup {k}
            /\ KeyUpOf(ev', k) => pressed_keys' = pressed_keys \ {k}
            /\ (IsPKeyUp(ev', k) /\ k \in pressed_keys) =>
                  \A d \in HotkeyIds :
                      ( /\ d \in active_combos /\ keyboard_hotkeys[d].mode = "hold"
                        /\ NonModifierKeys(d) # {} )
                      => ( d \notin active_combos'
                             <=> /\ k \in NonModifierKeys(d)
                                 /\ (pressed_keys \ {k}) \cap NonModifierKeys(d) = {} )
       /\ ( /\ \A k \in TrackedKeys : ~KeyDownOf(ev', k) /\ ~KeyUpOf(ev', k)
            /\ ~(ev'.src = "event_callback" /\ ev'.arg.type = "FlagsChanged") )
          => pressed_keys' = pressed_keys
    ]_vars

\* KeyUp(x) with y still down: x has left pressed, {ctrl, x, y} stays active
C16_Witness ==
    /\ IsPKeyUp(ev, "x")
    /\ pressed_keys = {"ctrl", "y"}
    /\ "hold_cxy" \in active_combos
    /\ "toggle_cx" \notin active_combos

(***************************************************************************)
(* C17. ModifierChanged reconciliation, macOS listener: after a            *)
(* FlagsChanged with the modifier set newSet, the modifiers in pressed are *)
(* newSet, the other keys in pressed are those of before, and              *)
(* last_modifiers is newSet, also when the event adds one modifier and     *)
(* removes another; after every step the modifiers in pressed are          *)
(* last_modifiers.                                                         *)
(***************************************************************************)
C17_ModifierReconciliation ==
    [][backend = "macos" =>
        /\ (ev'.src = "event_callback" /\ ev'.arg.type = "FlagsChanged" /\ ~ev'.arg.malformed)
              => LET newSet == get_modifier_names(ev'.arg.flags)
                 IN /\ pressed_keys' \cap MacModifiers = newSet
                    /\ pressed_keys' \ MacModifiers = pressed_keys \ MacModifiers
                    /\ last_modifiers' = newSet
        /\ pressed_keys' \cap MacModifiers = last_modifiers'
    ]_vars

\* one FlagsChanged took control away and brought shift, with x and y held:
\* the Hold {ctrl, x, y} was released, {ctrl, shift} was never satisfied
C17_Witness ==
    /\ ev.src = "event_callback" /\ ev.arg.type = "FlagsChanged"
    /\ enabled["hold_cs"] /\ enabled["hold_cxy"]
    /\ pressed_keys = {"shift", "x", "y"}
    /\ last_modifiers = {"shift"}
    /\ out = <<hotkey_pressed("hold_cxy", "release")>>

Detached ==
    /\ keyboard_listener \in {"none", "stopped"}
    /\ mouse_listener \in {"none", "stopped"}
    /\ tap \in {"none", "disabled"}

C19_CooperativeStop ==
    [](stop_event => <>(run_pc = "done" /\ Detached))

(***************************************************************************)
(* C20. Press/Release alternation, both listeners, fixed configuration:    *)
(* for every Hold definition the signals emitted for its id alternate      *)
(* Press, Release, Press, ... starting with Press, and the id is in active *)
(* exactly between a Press and its Release.  As a step relation: read from *)
(* a state in which "the id is in active" says whether a Press is          *)
(* unmatched, the signals one event emits for the id continue the          *)
(* alternation, and they leave the id in active iff the last of them is a  *)
(* Press (or there is none and it was in active).                          *)
(***************************************************************************)
HoldIds == {d \in HotkeyIds : keyboard_hotkeys[d].mode = "hold"}

\* walks the emission o from position i on; `open` says whether a Press of d
\* is unmatched; ok turns FALSE at a Press on a Press or a Release without Press
RECURSIVE Alternates(_, _, _, _)
Alternates(o, i, d, open) ==
    IF i > Len(o) THEN [ok |-> TRUE, open |-> open]
    ELSE IF o[i].sig # "hotkey_pressed" \/ o[i].id # d
    THEN Alternates(o, i + 1, d, open)
    ELSE IF o[i].arg = "press" /\ ~open THEN Alternates(o, i + 1, d, TRUE)
    ELSE IF o[i].arg = "release" /\ open THEN Alternates(o, i + 1, d, FALSE)
    ELSE [ok |-> FALSE, open |-> open]

C20_PressReleaseAlternation ==
    [][\A d \in HoldIds :
        LET w == Alternates(out', 1, d, d \in active_combos)
        IN w.ok /\ (w.open <=> d \in active_combos')
    ]_vars

\* the Release of the Hold {ctrl, shift, x} was emitted after its Press: the
\* id has left active while ctrl and shift are still held
C20_Witness ==
    /\ NumSig(out, hotkey_pressed("hold_csx", "release")) = 1
    /\ "hold_csx" \notin active_combos
    /\ "hold_cs" \in active_combos
    /\ "x" \notin pressed_keys

(***************************************************************************)
(* C21. No stuck activation, pynput listener, fixed configuration: in      *)
(* every reachable state an active Hold definition with non-modifier keys  *)
(* has at least one of its non-modifier keys in pressed; every other       *)
(* active entry (a Toggle definition, a Hold of modifiers only, a snippet  *)
(* guard) has all its keys in pressed; whenever pressed is empty, active   *)
(* is empty.                                                               *)
(***************************************************************************)
C21_NoStuckActivation ==
    backend = "pynput" =>
        /\ \A d \in HotkeyIds :
              d \in active_combos =>
                  IF keyboard_hotkeys[d].mode = "hold" /\ NonModifierKeys(d) # {}
                  THEN NonModifierKeys(d) \cap pressed_keys # {}
                  ELSE keyboard_hotkeys[d].keys \subseteq pressed_keys
        /\ \A s \in SnippetIds :
              SnipKey(s) \in active_combos => text_snippets[s].keys \subseteq pressed_keys
        /\ pressed_keys = {} => active_combos = {}

\* the modifiers of the active Hold {ctrl, shift, x} were let go: only x is
\* pressed, and the combo is still active
C21_Witness ==
    /\ backend = "pynput"
    /\ pressed_keys = {"x"}
    /\ active_combos = {"hold_csx"}

(***************************************************************************)
(* C22. Hold with several non-modifier keys ends at the last one, pynput   *)
(* listener: for an active Hold definition with two or more non-modifier   *)
(* keys, the KeyUp of one of them while another is still pressed emits no  *)
(* Release and keeps the id in active, and no KeyDown (of the released key *)
(* or any other) emits a second Press; its Release is emitted exactly by   *)
(* the KeyUp of a non-modifier key after which none of them is pressed.    *)
(***************************************************************************)
C22_MultiKeyHoldEndsAtLast ==
    [][backend = "pynput" =>
        \A d \in {h \in HoldIds : Cardinality(NonModifierKeys(h)) >= 2} :
            LET rel == NumSig(out', hotkey_pressed(d, "release")) IN
            /\ d \in active_combos =>
                  /\ \A k \in NonModifierKeys(d) :
                        IsPKeyUp(ev', k) =>
                            IF (pressed_keys \ {k}) \cap NonModifierKeys(d) # {}
                            THEN rel = 0 /\ d \in active_combos'
                            ELSE rel = 1 /\ d \notin active_combos'
                  /\ ev'.src = "key_press" => NumSig(out', hotkey_pressed(d, "press")) = 0
            /\ rel > 0 =>
                  /\ rel = 1 /\ d \in active_combos
                  /\ \E k \in NonModifierKeys(d) : IsPKeyUp(ev', k)
                  /\ pressed_keys' \cap NonModifierKeys(d) = {}
    ]_vars

\* x, released while y kept the Hold {ctrl, x, y} active, is pressed again:
\* the Toggle {ctrl, x} fires anew, the Hold emits no second Press
C22_Witness ==
    /\ backend = "pynput"
    /\ IsPKeyDown(ev, "x")
    /\ pressed_keys = {"ctrl", "x", "y"}
    /\ "hold_cxy" \in active_combos
    /\ out = <<hotkey_pressed("toggle_cx", "toggle")>>

(***************************************************************************)
(* C23. Mouse handling is independent of keyboard state, both listeners:   *)
(* a MouseDown/MouseUp leaves pressed, active and last_modifiers as they   *)
(* were and emits mouse signals only, the same signals the handler emits   *)
(* for that event with nothing pressed and nothing active; no other step   *)
(* emits a mouse signal.  Hence the keyboard signals and the final pressed *)
(* and active of a run are those of its keyboard events alone, wherever    *)
(* the mouse callbacks fall between them.                                  *)
(***************************************************************************)
\* what the mouse handler emits for event e when no key was ever pressed
MouseSignalsAlone(e) ==
    IF e.src = "event_callback"
    THEN event_callback(e.arg, {}, {}, {}, enabled).out
    ELSE on_mouse_click(e.arg.name, e.src = "mouse_down", enabled)

C23_MouseIndependence ==
    [][IF IsMouseEvent(ev', TRUE) \/ IsMouseEvent(ev', FALSE)
       THEN /\ pressed_keys' = pressed_keys
            /\ active_combos' = active_combos
            /\ last_modifiers' = last_modifiers
            /\ out' = MouseSignalsAlone(ev')
            /\ \A i \in DOMAIN out' : out'[i].sig = "mouse_button_event"
       ELSE \A i \in DOMAIN out' : out'[i].sig # "mouse_button_event"
    ]_vars

\* a MouseDown(middle) handled while the Hold {ctrl, shift, x} is active
C23_Witness ==
    /\ IsMouseEvent(ev, TRUE) /\ IsMiddle(ev)
    /\ "hold_csx" \in active_combos
    /\ "x" \in pressed_keys
    /\ out = <<mouse_button_event("m_hold", "press"), mouse_button_event("m_toggle", "toggle")>>

=============================================================================
